---- MODULE Spec2Model ----
(***************************************************************************)
(* Layout and coordinate mapping of the splotch charting library.          *)
(*                                                                         *)
(* Rectangles are pointy bounding boxes (a minimum and a maximum corner).  *)
(* Coordinates are f32 in the source; the model uses integers, on which    *)
(* f32 addition and subtraction are exact in the ranges explored, and      *)
(* exact fractions (numerator over denominator) where the source divides.  *)
(***************************************************************************)
EXTENDS Integers, Sequences, FiniteSets, TLC

VARIABLES
    rect,       \* Edge::split: the working rectangle (`rect: &mut BBox<f32>`)
    prev,       \* Edge::split: the working rectangle before the last call
    carved,     \* Edge::split: the rectangle returned by the last call
    op,         \* Edge::split: the last call's arguments (edge, value)
    nsplits,    \* Edge::split: number of calls made so far
    chart,      \* Chart: aspect_ratio, titles, axes
    axis,       \* the Horizontal / Vertical value being built, or None
    moved,      \* history: on_top / on_right was called on `axis`
    calls,      \* history: the with_title / with_axis calls, in call order
    out,        \* what Chart::render computed: clip area and body layout
    pc,         \* "build" until Chart::render consumed the chart
    domain,     \* plot: the domain bounding box (`domain: &BBox<f32>`)
    plotRect,   \* plot: the plot body rectangle passed to display (`rect`)
    pt,         \* plot: the data point mapped last, or None
    px,         \* plot: x_map's result for pt
    py,         \* plot: y_map's result for pt
    scaleDomain,\* scale: the domain a Numeric scale is built from
    target,     \* scale: the target tick count
    numeric,    \* scale: the Numeric built by from_data, or None
    tickVals,   \* scale: the axis constructor's result (kind, ticks), or None
    seen,       \* domain: the points folded into the bounding box so far
    extent,     \* domain: the bounding box (BBox::new, then extend)
    gAxis,      \* axis display: the axis (kind, edge, ticks)
    gArea,      \* axis display: the plot body rectangle (`area`)
    gRect,      \* axis display: the rectangle split off for the axis (`rect`)
    grid,       \* axis display: the lines display_grid wrote, or None
    marks,      \* axis display: the marks display_tick_lines wrote, or None
    pair,       \* split order: two splits and the result of either order
    plots,      \* Chart::plots: the kinds of the plots added, in order
    plotOut     \* the plot-N numbers Chart::render wrote, or None

splitVars == <<rect, prev, carved, op, nsplits>>

chartVars == <<chart, axis, moved, calls, out, pc>>

mapVars == <<domain, plotRect, pt, px, py>>

scaleVars == <<scaleDomain, target, numeric, tickVals>>

domainVars == <<seen, extent>>

axisVars == <<gAxis, gArea, gRect, grid, marks>>

plotVars == <<plots, plotOut>>

laterVars ==
    <<scaleDomain, target, numeric, tickVals, seen, extent,
      gAxis, gArea, gRect, grid, marks, pair, plots, plotOut>>

vars ==
    <<rect, prev, carved, op, nsplits, chart, axis, moved, calls, out, pc,
      domain, plotRect, pt, px, py,
      scaleDomain, target, numeric, tickVals, seen, extent,
      gAxis, gArea, gRect, grid, marks, pair, plots, plotOut>>

None == [none |-> TRUE]

(***************************************************************************)
(* Bounds of the explored inputs.                                          *)
(***************************************************************************)
MaxOrigin == 1
MaxSpan == 3
MaxThick == 4
MaxSplits == 2

Min(a, b) == IF a <= b THEN a ELSE b

Max(a, b) == IF a >= b THEN a ELSE b

(***************************************************************************)
(* pointy::BBox                                                            *)
(***************************************************************************)
\* A bug a bounding box could have: the corners are stored as given.
BBoxNewUnordered(p, q) ==
    [x_min |-> p[1], y_min |-> p[2], x_max |-> q[1], y_max |-> q[2]]

\* BBox::new(points): the bounding box of the points, so min <= max.
BBoxNew(p, q) ==
    [x_min |-> Min(p[1], q[1]), y_min |-> Min(p[2], q[2]),
     x_max |-> Max(p[1], q[1]), y_max |-> Max(p[2], q[2])]

x_span(r) == r.x_max - r.x_min

y_span(r) == r.y_max - r.y_min

(***************************************************************************)
(* page.rs: Edge                                                           *)
(***************************************************************************)
Edge == {"Top", "Left", "Bottom", "Right"}

\* Edge::split for Edge::Top with the strip taken from the far side.
SplitTopFromBottom(r, value) ==
    LET height == y_span(r) - value
        h == y_span(r) - height
        y == r.y_min + height
        rem == BBoxNew(<<r.x_min, r.y_min>>, <<r.x_max, r.y_min + height>>)
    IN  [rect |-> rem,
         carved |-> BBoxNew(<<rem.x_min, y>>, <<rem.x_max, y + h>>)]

SplitTop(r, value) ==
    LET y == r.y_min
        height == y_span(r) - value
        h == y_span(r) - height
        rem == BBoxNew(<<r.x_min, r.y_min + h>>, <<r.x_max, r.y_max>>)
    IN  [rect |-> rem,
         carved |-> BBoxNew(<<rem.x_min, y>>, <<rem.x_max, y + h>>)]

\* A slip in the Left arm: the remainder starts at x_min + width, not + w.
SplitLeftByWidth(r, value) ==
    LET x == r.x_min
        width == x_span(r) - value
        w == x_span(r) - width
        rem == BBoxNew(<<r.x_min + width, r.y_min>>, <<r.x_max, r.y_max>>)
    IN  [rect |-> rem,
         carved |-> BBoxNew(<<x, rem.y_min>>, <<x + width, rem.y_max>>)]

SplitLeft(r, value) ==
    LET x == r.x_min
        width == x_span(r) - value
        w == x_span(r) - width
        rem == BBoxNew(<<r.x_min + w, r.y_min>>, <<r.x_max, r.y_max>>)
    IN  [rect |-> rem,
         carved |-> BBoxNew(<<x, rem.y_min>>, <<x + w, rem.y_max>>)]

SplitBottom(r, value) ==
    LET height == y_span(r) - value
        h == y_span(r) - height
        y == r.y_min + height
        rem == BBoxNew(<<r.x_min, r.y_min>>, <<r.x_max, r.y_min + height>>)
    IN  [rect |-> rem,
         carved |-> BBoxNew(<<rem.x_min, y>>, <<rem.x_max, y + h>>)]

SplitRight(r, value) ==
    LET width == x_span(r) - value
        w == x_span(r) - width
        x == r.x_min + width
        rem == BBoxNew(<<r.x_min, r.y_min>>, <<r.x_min + width, r.y_max>>)
    IN  [rect |-> rem,
         carved |-> BBoxNew(<<x, rem.y_min>>, <<x + w, rem.y_max>>)]

\* Edge::split(self, rect, value): the new `rect` and the returned box.
Split(edge, r, value) ==
    CASE edge = "Top" -> SplitTop(r, value)
      [] edge = "Left" -> SplitLeft(r, value)
      [] edge = "Bottom" -> SplitBottom(r, value)
      [] edge = "Right" -> SplitRight(r, value)

(***************************************************************************)
(* Geometry used to state the properties.                                  *)
(***************************************************************************)
RectArea(r) == x_span(r) * y_span(r)

Overlap(a, b) ==
    /\ a.x_min < b.x_max /\ b.x_min < a.x_max
    /\ a.y_min < b.y_max /\ b.y_min < a.y_max

Inside(a, b) ==
    /\ b.x_min <= a.x_min /\ a.x_max <= b.x_max
    /\ b.y_min <= a.y_min /\ a.y_max <= b.y_max

NonNegative(r) == r.x_min <= r.x_max /\ r.y_min <= r.y_max

EdgeSpan(edge, r) == IF edge \in {"Top", "Bottom"} THEN y_span(r) ELSE x_span(r)

\* The strip of thickness t lying against `edge` of r.
Strip(edge, r, t) ==
    CASE edge = "Top" -> [r EXCEPT !.y_max = r.y_min + t]
      [] edge = "Bottom" -> [r EXCEPT !.y_min = r.y_max - t]
      [] edge = "Left" -> [r EXCEPT !.x_max = r.x_min + t]
      [] edge = "Right" -> [r EXCEPT !.x_min = r.x_max - t]

\* What is left of r once the strip of thickness t against `edge` is removed.
Rest(edge, r, t) ==
    CASE edge = "Top" -> [r EXCEPT !.y_min = r.y_min + t]
      [] edge = "Bottom" -> [r EXCEPT !.y_max = r.y_max - t]
      [] edge = "Left" -> [r EXCEPT !.x_min = r.x_min + t]
      [] edge = "Right" -> [r EXCEPT !.x_max = r.x_max - t]

(***************************************************************************)
(* Specification SpecSplit: any sequence of Edge::split calls.             *)
(***************************************************************************)
ScenarioRect == BBoxNew(<<0, 0>>, <<1000, 500>>)

InitRects ==
    {BBoxNew(<<x, y>>, <<x + w, y + h>>) :
        x \in 0..MaxOrigin, y \in 0..MaxOrigin, w \in 0..MaxSpan, h \in 0..MaxSpan}
    \cup {ScenarioRect}

Thicknesses == 0..MaxThick \cup {100, 600}

ChartDefault == [aspect_ratio |-> "Landscape", titles |-> <<>>, axes |-> <<>>]

ScaleIdle ==
    /\ scaleDomain = None
    /\ target = 0
    /\ numeric = None
    /\ tickVals = None

DomainIdle ==
    /\ seen = {}
    /\ extent = None

AxisIdle ==
    /\ gAxis = None
    /\ gArea = None
    /\ gRect = None
    /\ grid = None
    /\ marks = None

OrderIdle == pair = None

PlotsIdle ==
    /\ plots = <<>>
    /\ plotOut = None

MapIdle ==
    /\ domain = None
    /\ plotRect = None
    /\ pt = None
    /\ px = None
    /\ py = None

ChartIdle ==
    /\ chart = ChartDefault
    /\ axis = None
    /\ moved = FALSE
    /\ calls = <<>>
    /\ out = None
    /\ pc = "build"

InitSplit ==
    /\ rect \in InitRects
    /\ prev = None
    /\ carved = None
    /\ op = None
    /\ nsplits = 0
    /\ ChartIdle
    /\ ScaleIdle
    /\ DomainIdle
    /\ AxisIdle
    /\ OrderIdle
    /\ PlotsIdle
    /\ MapIdle

DoSplit(edge, value) ==
    /\ nsplits < MaxSplits
    /\ LET s == Split(edge, rect, value)
       IN  /\ rect' = s.rect
           /\ carved' = s.carved
    /\ prev' = rect
    /\ op' = [edge |-> edge, value |-> value]
    /\ nsplits' = nsplits + 1
    /\ UNCHANGED chartVars
    /\ UNCHANGED mapVars
    /\ UNCHANGED laterVars

NextSplit == \E edge \in Edge, value \in Thicknesses : DoSplit(edge, value)

SpecSplit == InitSplit /\ [][NextSplit]_vars

SplitFits == op # None /\ op.value <= EdgeSpan(op.edge, prev)

SplitTooThick == op # None /\ op.value > EdgeSpan(op.edge, prev)

\* C1: a split whose thickness fits the span returns the strip of that
\* thickness lying against the edge and leaves the rest of the rectangle:
\* the two do not overlap and their areas add up to the original's; the
\* 1000 x 500 rectangle split Top by 100 gives {0,0,1000,100} and leaves
\* {0,100,1000,400}.
C1_SplitPartitions ==
    SplitFits =>
        /\ carved = Strip(op.edge, prev, op.value)
        /\ rect = Rest(op.edge, prev, op.value)
        /\ ~Overlap(carved, rect)
        /\ RectArea(carved) + RectArea(rect) = RectArea(prev)
        /\ (prev = ScenarioRect /\ op = [edge |-> "Top", value |-> 100] =>
                /\ carved = BBoxNew(<<0, 0>>, <<1000, 100>>)
                /\ rect = BBoxNew(<<0, 100>>, <<1000, 500>>))

C1_Witness ==
    /\ SplitFits
    /\ prev = ScenarioRect
    /\ op = [edge |-> "Top", value |-> 100]
    /\ carved = BBoxNew(<<0, 0>>, <<1000, 100>>)
    /\ rect = BBoxNew(<<0, 100>>, <<1000, 500>>)

\* C2: a split thicker than the span is clamped: the carved thickness is
\* the span, the remainder's dimension is 0 and the remainder stays inside
\* the original rectangle.
C2_SplitClamps ==
    SplitTooThick =>
        /\ EdgeSpan(op.edge, carved) = EdgeSpan(op.edge, prev)
        /\ EdgeSpan(op.edge, rect) = 0
        /\ Inside(rect, prev)

\* C3: after any sequence of splits with non-negative thicknesses the
\* remainder and the carved rectangle have width >= 0 and height >= 0.
C3_NonNegative ==
    /\ NonNegative(rect)
    /\ (carved # None => NonNegative(carved))

C3_Witness ==
    /\ nsplits = 2
    /\ SplitTooThick
    /\ NonNegative(rect)
    /\ NonNegative(carved)

(***************************************************************************)
(* chart.rs: Title, Chart; axis.rs: Horizontal, Vertical                   *)
(***************************************************************************)
AspectRatio == {"Landscape", "Square", "Portrait"}

\* AspectRatio::rect
AspectRect(aspect) ==
    CASE aspect = "Landscape" -> BBoxNew(<<0, 0>>, <<2000, 1500>>)
      [] aspect = "Square" -> BBoxNew(<<0, 0>>, <<2000, 2000>>)
      [] aspect = "Portrait" -> BBoxNew(<<0, 0>>, <<1500, 2000>>)

\* inset(bbox, value)
inset(bbox, value) ==
    BBoxNew(<<bbox.x_min + value, bbox.y_min + value>>,
            <<bbox.x_max - value, bbox.y_max - value>>)

PageInset == 40

TitleSpace == 100

\* Title::new and the builder methods that choose the edge.
TitleNew == [edge |-> "Top"]

title_on_bottom(t) == [t EXCEPT !.edge = "Bottom"]

title_on_left(t) == [t EXCEPT !.edge = "Left"]

title_on_right(t) == [t EXCEPT !.edge = "Right"]

\* Horizontal::new, Vertical::new and their builder methods.
HorizontalNew == [kind |-> "Horizontal", edge |-> "Bottom", name |-> FALSE]

VerticalNew == [kind |-> "Vertical", edge |-> "Left", name |-> FALSE]

with_name(a) == [a EXCEPT !.name = TRUE]

\* A slip in on_top: the axis is attached to a side edge.
on_top_side(a) == [a EXCEPT !.edge = "Left"]

on_top(a) == [a EXCEPT !.edge = "Top"]

on_right(a) == [a EXCEPT !.edge = "Right"]

\* A slip in space: the two tiers are swapped.
HorizontalSpaceSwapped(a) == IF a.name THEN 80 ELSE 160

\* Horizontal::space
HorizontalSpace(a) == IF a.name THEN 160 ELSE 80

\* Vertical::space
VerticalSpace(a) == IF a.name THEN 160 ELSE 80

\* <Horizontal as sealed::Axis>::split, <Vertical as sealed::Axis>::split
AxisSplit(a, area) ==
    IF a.kind = "Horizontal"
    THEN Split(a.edge, area, HorizontalSpace(a))
    ELSE Split(a.edge, area, VerticalSpace(a))

\* The `match self.edge` of Horizontal::display_tick_lines: TRUE when the
\* unreachable!() arm is taken.
HorizontalTickLinesUnreachable(a) == a.edge \notin {"Top", "Bottom"}

\* The `match self.edge` of Vertical::display_tick_lines and
\* Vertical::display_tick_labels.
VerticalTickLinesUnreachable(a) == a.edge \notin {"Left", "Right"}

\* Axis::display: TRUE when it panics.
AxisDisplayPanics(a) ==
    IF a.kind = "Horizontal"
    THEN HorizontalTickLinesUnreachable(a)
    ELSE VerticalTickLinesUnreachable(a)

\* The title loop of Chart::body.  The loop state st holds the index of the
\* next title, the working area and the splits made so far; each split
\* records the item, the working area before it, the rectangle the item
\* received and the working area left.
RECURSIVE BodyTitles(_, _)
BodyTitles(titles, st) ==
    IF st.i > Len(titles)
    THEN st
    ELSE LET s == Split(titles[st.i].edge, st.area, TitleSpace)
         IN  BodyTitles(titles,
                 [i |-> st.i + 1,
                  area |-> s.rect,
                  splits |-> Append(st.splits,
                      [what |-> "title", index |-> st.i, edge |-> titles[st.i].edge,
                       before |-> st.area, rect |-> s.carved, after |-> s.rect])])

\* The axis loop of Chart::body.
RECURSIVE BodyAxes(_, _)
BodyAxes(axes, st) ==
    IF st.i > Len(axes)
    THEN st
    ELSE LET s == AxisSplit(axes[st.i], st.area)
         IN  BodyAxes(axes,
                 [i |-> st.i + 1,
                  area |-> s.rect,
                  splits |-> Append(st.splits,
                      [what |-> "axis", index |-> st.i, edge |-> axes[st.i].edge,
                       before |-> st.area, rect |-> s.carved, after |-> s.rect])])

\* A slip in Chart::body: the axis loop runs before the title loop.
BodyAxesFirst(c) ==
    LET page == inset(AspectRect(c.aspect_ratio), PageInset)
        a == BodyAxes(c.axes, [i |-> 1, area |-> page, splits |-> <<>>])
        t == BodyTitles(c.titles, [i |-> 1, area |-> a.area, splits |-> a.splits])
    IN  [page |-> page,
         splits |-> t.splits,
         area |-> t.area,
         panicked |-> \E i \in 1..Len(c.axes) : AxisDisplayPanics(c.axes[i])]

\* Chart::body: the splits in the order made, the plot body left over, and
\* whether an axis display reached unreachable!().
Body(c) ==
    LET page == inset(AspectRect(c.aspect_ratio), PageInset)
        t == BodyTitles(c.titles, [i |-> 1, area |-> page, splits |-> <<>>])
        a == BodyAxes(c.axes, [i |-> 1, area |-> t.area, splits |-> t.splits])
    IN  [page |-> page,
         splits |-> a.splits,
         area |-> a.area,
         panicked |-> \E i \in 1..Len(c.axes) : AxisDisplayPanics(c.axes[i])]

\* The title loop of Chart::area; st holds the index of the next title and
\* the working area.
RECURSIVE AreaTitles(_, _)
AreaTitles(titles, st) ==
    IF st.i > Len(titles)
    THEN st.area
    ELSE AreaTitles(titles,
             [i |-> st.i + 1,
              area |-> Split(titles[st.i].edge, st.area, TitleSpace).rect])

\* The axis loop of Chart::area.
RECURSIVE AreaAxes(_, _)
AreaAxes(axes, st) ==
    IF st.i > Len(axes)
    THEN st.area
    ELSE AreaAxes(axes,
             [i |-> st.i + 1, area |-> AxisSplit(axes[st.i], st.area).rect])

\* A slip in Chart::area: the axes are not split off.
ChartAreaTitlesOnly(c) ==
    AreaTitles(c.titles,
               [i |-> 1, area |-> inset(AspectRect(c.aspect_ratio), PageInset)])

\* Chart::area
ChartArea(c) ==
    LET titled == AreaTitles(c.titles,
                      [i |-> 1, area |-> inset(AspectRect(c.aspect_ratio), PageInset)])
    IN  AreaAxes(c.axes, [i |-> 1, area |-> titled])

(***************************************************************************)
(* Specification Spec: a chart is built by any interleaving of builder     *)
(* calls and then rendered.  SpecDeep builds charts with many default      *)
(* titles, enough to use up the page.                                      *)
(***************************************************************************)
MaxTitles == 2
MaxAxes == 1
MaxDeepTitles == 15
MaxDeepAxes == 1

Titles ==
    {TitleNew, title_on_bottom(TitleNew), title_on_left(TitleNew),
     title_on_right(TitleNew)}

DeepTitles == {TitleNew}

SplitIdle ==
    /\ rect = None
    /\ prev = None
    /\ carved = None
    /\ op = None
    /\ nsplits = 0

Init ==
    /\ SplitIdle
    /\ ChartIdle
    /\ ScaleIdle
    /\ DomainIdle
    /\ AxisIdle
    /\ OrderIdle
    /\ PlotsIdle
    /\ MapIdle

\* Chart::with_aspect_ratio
WithAspectRatio(aspect) ==
    /\ pc = "build"
    /\ chart' = [chart EXCEPT !.aspect_ratio = aspect]
    /\ UNCHANGED <<axis, moved, calls, out, pc>>
    /\ UNCHANGED splitVars
    /\ UNCHANGED mapVars
    /\ UNCHANGED laterVars

\* Chart::with_title
WithTitle(title, maxTitles) ==
    /\ pc = "build"
    /\ Len(chart.titles) < maxTitles
    /\ chart' = [chart EXCEPT !.titles = Append(@, title)]
    /\ calls' = Append(calls, [what |-> "title", index |-> Len(chart.titles) + 1,
                              edge |-> title.edge, moved |-> FALSE])
    /\ UNCHANGED <<axis, moved, out, pc>>
    /\ UNCHANGED splitVars
    /\ UNCHANGED mapVars
    /\ UNCHANGED laterVars

\* Horizontal::new
NewHorizontal(maxAxes) ==
    /\ pc = "build"
    /\ axis = None
    /\ Len(chart.axes) < maxAxes
    /\ axis' = HorizontalNew
    /\ moved' = FALSE
    /\ UNCHANGED <<chart, calls, out, pc>>
    /\ UNCHANGED splitVars
    /\ UNCHANGED mapVars
    /\ UNCHANGED laterVars

\* Vertical::new
NewVertical(maxAxes) ==
    /\ pc = "build"
    /\ axis = None
    /\ Len(chart.axes) < maxAxes
    /\ axis' = VerticalNew
    /\ moved' = FALSE
    /\ UNCHANGED <<chart, calls, out, pc>>
    /\ UNCHANGED splitVars
    /\ UNCHANGED mapVars
    /\ UNCHANGED laterVars

\* Horizontal::with_name, Vertical::with_name
AxisWithName ==
    /\ pc = "build"
    /\ axis # None
    /\ axis' = with_name(axis)
    /\ UNCHANGED <<chart, moved, calls, out, pc>>
    /\ UNCHANGED splitVars
    /\ UNCHANGED mapVars
    /\ UNCHANGED laterVars

\* Horizontal::on_top
OnTop ==
    /\ pc = "build"
    /\ axis # None
    /\ axis.kind = "Horizontal"
    /\ axis' = on_top(axis)
    /\ moved' = TRUE
    /\ UNCHANGED <<chart, calls, out, pc>>
    /\ UNCHANGED splitVars
    /\ UNCHANGED mapVars
    /\ UNCHANGED laterVars

\* Vertical::on_right
OnRight ==
    /\ pc = "build"
    /\ axis # None
    /\ axis.kind = "Vertical"
    /\ axis' = on_right(axis)
    /\ moved' = TRUE
    /\ UNCHANGED <<chart, calls, out, pc>>
    /\ UNCHANGED splitVars
    /\ UNCHANGED mapVars
    /\ UNCHANGED laterVars

\* Chart::with_axis
WithAxis ==
    /\ pc = "build"
    /\ axis # None
    /\ chart' = [chart EXCEPT !.axes = Append(@, axis)]
    /\ calls' = Append(calls, [what |-> "axis", index |-> Len(chart.axes) + 1,
                              edge |-> axis.edge, moved |-> moved])
    /\ axis' = None
    /\ moved' = FALSE
    /\ UNCHANGED <<out, pc>>
    /\ UNCHANGED splitVars
    /\ UNCHANGED mapVars
    /\ UNCHANGED laterVars

\* Chart::render: defs (the clip rectangle from Chart::area), then body.  An
\* axis value not yet handed to with_axis plays no part in it, so the chart
\* is rendered once every axis built has been added.
Render ==
    /\ pc = "build"
    /\ axis = None
    /\ out' = [clip |-> ChartArea(chart), body |-> Body(chart)]
    /\ pc' = "rendered"
    /\ UNCHANGED <<chart, axis, moved, calls>>
    /\ UNCHANGED splitVars
    /\ UNCHANGED mapVars
    /\ UNCHANGED laterVars

Next ==
    \/ \E aspect \in AspectRatio : WithAspectRatio(aspect)
    \/ \E title \in Titles : WithTitle(title, MaxTitles)
    \/ NewHorizontal(MaxAxes)
    \/ NewVertical(MaxAxes)
    \/ AxisWithName
    \/ OnTop
    \/ OnRight
    \/ WithAxis
    \/ Render

Spec == Init /\ [][Next]_vars

NextDeep ==
    \/ \E aspect \in AspectRatio : WithAspectRatio(aspect)
    \/ \E title \in DeepTitles : WithTitle(title, MaxDeepTitles)
    \/ NewHorizontal(MaxDeepAxes)
    \/ NewVertical(MaxDeepAxes)
    \/ AxisWithName
    \/ OnTop
    \/ OnRight
    \/ WithAxis
    \/ Render

SpecDeep == Init /\ [][NextDeep]_vars

Rendered == pc = "rendered"

TitleCalls == SelectSeq(calls, LAMBDA c : c.what = "title")

AxisCalls == SelectSeq(calls, LAMBDA c : c.what = "axis")

\* C4: the title rectangles, the axis rectangles and the plot body all lie
\* inside the inset page rectangle and their interiors are pairwise disjoint,
\* for any number of titles and axes.
C4_LayoutInsideDisjoint ==
    Rendered =>
        LET b == out.body
            n == Len(b.splits)
        IN  /\ Inside(b.area, b.page)
            /\ \A i \in 1..n :
                /\ Inside(b.splits[i].rect, b.page)
                /\ ~Overlap(b.splits[i].rect, b.area)
                /\ \A j \in 1..n : i < j => ~Overlap(b.splits[i].rect, b.splits[j].rect)

C6_AreaEqualsBody ==
    Rendered =>
        /\ out.clip = out.body.area
        /\ ChartArea(chart) = out.clip
        /\ Body(chart) = out.body

C6_Witness ==
    /\ Rendered
    /\ Len(chart.titles) >= 1
    /\ Len(chart.axes) >= 1
    /\ out.clip = out.body.area
    /\ out.clip # out.body.page

AxisTier(a) == IF a.name THEN 160 ELSE 80

ExpectedEdge(kind, mv) ==
    IF kind = "Horizontal"
    THEN (IF mv THEN "Top" ELSE "Bottom")
    ELSE (IF mv THEN "Right" ELSE "Left")

\* C8: a Horizontal axis is on Bottom unless on_top was called, then on Top;
\* a Vertical axis is on Left unless on_right was called, then on Right; so
\* no axis display reaches an unreachable!() arm.
C8_AxisEdge ==
    /\ (axis # None => axis.edge = ExpectedEdge(axis.kind, moved))
    /\ \A i \in 1..Len(chart.axes) :
        chart.axes[i].edge = ExpectedEdge(chart.axes[i].kind, AxisCalls[i].moved)
    /\ (Rendered => ~out.body.panicked)

C8_Witness ==
    /\ Rendered
    /\ ~out.body.panicked
    /\ \E i \in 1..Len(chart.axes) :
        /\ chart.axes[i].kind = "Horizontal"
        /\ AxisCalls[i].moved
        /\ chart.axes[i].edge = "Top"
    /\ \A i \in 1..Len(chart.axes) :
        chart.axes[i].kind = "Horizontal" => chart.axes[i].edge \in {"Top", "Bottom"}

(***************************************************************************)
(* scale.rs: Numeric (the file is not among the sources; modelled from the *)
(* specification's NumericScale).  A normalized value is an exact fraction *)
(* [n, d] with d > 0.                                                      *)
(***************************************************************************)
Frac(n, d) == [n |-> n, d |-> d]

\* Numeric::from_data(domain, |pt| pt.x()) / (domain, |pt| pt.y())
from_data(dom, dim) ==
    IF dim = "x"
    THEN [lo |-> dom.x_min, hi |-> dom.x_max, inverted |-> FALSE]
    ELSE [lo |-> dom.y_min, hi |-> dom.y_max, inverted |-> FALSE]

\* Numeric::inverted
inverted(scale) == [scale EXCEPT !.inverted = ~@]

\* Numeric::normalize
normalize(scale, value) ==
    LET f == IF scale.hi = scale.lo
             THEN Frac(1, 2)
             ELSE Frac(value - scale.lo, scale.hi - scale.lo)
    IN  IF scale.inverted THEN Frac(f.d - f.n, f.d) ELSE f

(***************************************************************************)
(* plot.rs: x_norm, y_norm, x_map, y_map                                   *)
(***************************************************************************)
\* A slip in x_norm: the scale is built with the getter |pt| pt.y().
x_norm_of_y(dom, x) == normalize(from_data(dom, "y"), x)

x_norm(dom, x) == normalize(from_data(dom, "x"), x)

\* A slip in y_norm: the scale is not inverted.
y_norm_plain(dom, y) == normalize(from_data(dom, "y"), y)

\* A slip in y_norm: the scale is built with the getter |pt| pt.x().
y_norm_of_x(dom, y) == normalize(inverted(from_data(dom, "x")), y)

y_norm(dom, y) == normalize(inverted(from_data(dom, "y")), y)

I32Max == 2147483647

\* `as i32` on a float that holds an integer: saturating.
AsI32(v) == Max(-I32Max - 1, Min(I32Max, v))

Abs(v) == IF v >= 0 THEN v ELSE -v

\* f32::round: nearest integer, halves away from zero.
Round(f) ==
    IF f.n >= 0
    THEN (2 * f.n + f.d) \div (2 * f.d)
    ELSE -((2 * (-f.n) + f.d) \div (2 * f.d))

\* `as i32` without the round(): truncation toward zero.
Trunc(f) == IF f.n >= 0 THEN f.n \div f.d ELSE -((-f.n) \div f.d)

\* A slip in x_map: the call of round() is missing.
x_map_truncating(dom, x, r) ==
    LET rx == r.x_min
        rw == x_span(r)
        nx == x_norm(dom, x)
        mx == Frac(rx * nx.d + rw * nx.n, nx.d)
    IN  AsI32(Trunc(mx))

x_map(dom, x, r) ==
    LET rx == r.x_min
        rw == x_span(r)
        nx == x_norm(dom, x)
        mx == Frac(rx * nx.d + rw * nx.n, nx.d)
    IN  AsI32(Round(mx))

y_map(dom, y, r) ==
    LET ry == r.y_min
        rh == y_span(r)
        ny == y_norm(dom, y)
        my == Frac(ry * ny.d + rh * ny.n, ny.d)
    IN  AsI32(Round(my))

(***************************************************************************)
(* Specification SpecMap: a plot maps data points of any domain into any   *)
(* plot body rectangle (the loop body of Line::display and                 *)
(* Scatter::display).                                                      *)
(***************************************************************************)
MaxDomain == 2

\* The data of the crate's example: x in [13, 190], y in [37, 74].
ScenarioData == {<<13, 74>>, <<111, 37>>, <<125, 52>>, <<190, 66>>}

ScenarioDomain == BBoxNew(<<13, 37>>, <<190, 74>>)

Domains ==
    {BBoxNew(<<a, b>>, <<c, d>>) :
        a \in 0..MaxDomain, b \in 0..MaxDomain, c \in 0..MaxDomain, d \in 0..MaxDomain}
    \cup {ScenarioDomain}

MapVals == (-1)..(MaxDomain + 1)

MapPoints == (MapVals \X MapVals) \cup ScenarioData

InitMap ==
    /\ SplitIdle
    /\ ChartIdle
    /\ ScaleIdle
    /\ DomainIdle
    /\ AxisIdle
    /\ OrderIdle
    /\ PlotsIdle
    /\ domain \in Domains
    /\ plotRect \in InitRects
    /\ pt = None
    /\ px = None
    /\ py = None

\* One iteration of the loop of Line::display: the point is mapped.
PlotPoint(p) ==
    /\ pt = None
    /\ pt' = p
    /\ px' = x_map(domain, p[1], plotRect)
    /\ py' = y_map(domain, p[2], plotRect)
    /\ UNCHANGED <<domain, plotRect>>
    /\ UNCHANGED splitVars
    /\ UNCHANGED chartVars
    /\ UNCHANGED laterVars

NextMap == \E p \in MapPoints : PlotPoint(p)

SpecMap == InitMap /\ [][NextMap]_vars

Mapped == pt # None

\* rect.origin + rect.span * normalize(value), as an exact fraction.
ExactX == 
    LET nx == normalize(from_data(domain, "x"), pt[1])
    IN  Frac(plotRect.x_min * nx.d + x_span(plotRect) * nx.n, nx.d)

ExactY ==
    LET ny == normalize(inverted(from_data(domain, "y")), pt[2])
    IN  Frac(plotRect.y_min * ny.d + y_span(plotRect) * ny.n, ny.d)

\* p is the integer nearest to f, the one farther from zero on a tie.
NearestHalfAway(p, f) ==
    /\ 2 * Abs(p * f.d - f.n) <= f.d
    /\ (2 * Abs(p * f.d - f.n) = f.d => Abs(p) * f.d > Abs(f.n))

\* C9: x_map gives rect.x_min + rect.x_span * normalize(x) of the X scale and
\* y_map gives rect.y_min + rect.y_span * normalize(y) of the (inverted) Y
\* scale, each rounded to the nearest integer, an exact half away from zero.
C9_MapRoundsHalfAway ==
    Mapped =>
        /\ NearestHalfAway(px, ExactX)
        /\ NearestHalfAway(py, ExactY)

C9_Witness ==
    /\ Mapped
    /\ ExactX.n < 0
    /\ 2 * Abs(px * ExactX.d - ExactX.n) = ExactX.d
    /\ px < 0
    /\ ExactY.n > 0
    /\ 2 * Abs(py * ExactY.d - ExactY.n) = ExactY.d
    /\ plotRect.y_min > 0

\* C10: the vertical direction is inverted and the horizontal is not: an
\* inverted scale normalizes to 1 minus the original's value; for a domain
\* with lo < hi, y_map sends the maximum y to rect.y_min and the minimum y to
\* rect.y_max and is non-increasing, x_map sends the minimum x to rect.x_min
\* and the maximum x to rect.x_max and is non-decreasing; with the x-range
\* [13, 190] the inverted scale normalizes 190 to 0 and 13 to 1.
C10_VerticalInverted ==
    Mapped =>
        /\ LET s == from_data(domain, "y")
               f == normalize(s, pt[2])
               g == normalize(inverted(s), pt[2])
           IN  g.n * f.d = (f.d - f.n) * g.d
        /\ (domain.y_min < domain.y_max =>
                /\ (pt[2] = domain.y_max => py = plotRect.y_min)
                /\ (pt[2] = domain.y_min => py = plotRect.y_max)
                /\ \A y \in MapVals :
                    y <= pt[2] => y_map(domain, y, plotRect) >= py)
        /\ (domain.x_min < domain.x_max =>
                /\ (pt[1] = domain.x_min => px = plotRect.x_min)
                /\ (pt[1] = domain.x_max => px = plotRect.x_max)
                /\ \A x \in MapVals :
                    x <= pt[1] => x_map(domain, x, plotRect) <= px)
        /\ (domain = ScenarioDomain =>
                LET s == inverted(from_data(domain, "x"))
                IN  /\ normalize(s, 190).n = 0
                    /\ normalize(s, 13).n = normalize(s, 13).d)

C10_Witness ==
    /\ Mapped
    /\ domain = ScenarioDomain
    /\ pt = <<13, 74>>
    /\ y_span(plotRect) > 0
    /\ x_span(plotRect) > 0
    /\ py = plotRect.y_min
    /\ px = plotRect.x_min

(***************************************************************************)
(* Properties of normalize, on the scales plot.rs builds (SpecMap).        *)
(***************************************************************************)
FracLeq(f, g) == f.n * g.d <= g.n * f.d

\* C11: for every domain with lo < hi, normalize(lo) = 0 and normalize(hi) = 1,
\* normalize is monotonic non-decreasing over [lo, hi], and so normalize(v)
\* lies in [0, 1] for every v in [lo, hi].
C11_NormalizeUnit ==
    (Mapped /\ domain.x_min < domain.x_max) =>
        LET lo == domain.x_min
            hi == domain.x_max
            nv == x_norm(domain, pt[1])
        IN  /\ x_norm(domain, lo).n = 0
            /\ x_norm(domain, hi).n = x_norm(domain, hi).d
            /\ \A w \in lo..hi :
                /\ (w <= pt[1] => FracLeq(x_norm(domain, w), nv))
                /\ (w >= pt[1] => FracLeq(nv, x_norm(domain, w)))
            /\ (pt[1] \in lo..hi => (nv.d > 0 /\ 0 <= nv.n /\ nv.n <= nv.d))

C11_Witness ==
    /\ Mapped
    /\ domain = ScenarioDomain
    /\ pt = <<111, 37>>
    /\ x_norm(domain, pt[1]) = Frac(98, 177)

\* C12: on a degenerate domain (lo = hi) normalize returns exactly 0.5 for
\* every input value, on the plain scale of x_norm and on the inverted scale
\* of y_norm, and the divisor is never zero.
C12_DegenerateHalf ==
    Mapped =>
        /\ (domain.x_min = domain.x_max =>
                LET nx == x_norm(domain, pt[1]) IN nx.d # 0 /\ 2 * nx.n = nx.d)
        /\ (domain.y_min = domain.y_max =>
                LET ny == y_norm(domain, pt[2]) IN ny.d # 0 /\ 2 * ny.n = ny.d)
        /\ x_norm(domain, pt[1]).d # 0
        /\ y_norm(domain, pt[2]).d # 0

C12_Witness ==
    /\ Mapped
    /\ domain.x_min = domain.x_max
    /\ domain.y_min = domain.y_max
    /\ pt[1] # domain.x_min
    /\ pt[2] # domain.y_min
    /\ 2 * px = 2 * plotRect.x_min + x_span(plotRect)
    /\ x_span(plotRect) > 0

(***************************************************************************)
(* scale.rs: Numeric::ticks (modelled from the specification's             *)
(* tick-generation algorithm; a step and a tick value are exact fractions) *)
(***************************************************************************)
MaxScale == 12
MaxTarget == 5
MaxExp == 3

FracLt(f, g) == f.n * g.d < g.n * f.d

FracEq(f, g) == f.n * g.d = g.n * f.d

FracMul(f, g) == Frac(f.n * g.n, f.d * g.d)

FracDiv(f, g) == Frac(f.n * g.d, f.d * g.n)

FracSub(f, g) == Frac(f.n * g.d - g.n * f.d, f.d * g.d)

RECURSIVE Pow10(_)
Pow10(n) == IF n = 0 THEN 1 ELSE 10 * Pow10(n - 1)

\* 10^k for an integer k
PowFrac(k) == IF k >= 0 THEN Frac(Pow10(k), 1) ELSE Frac(1, Pow10(-k))

\* ceil(a / b) for b > 0
CeilDiv(a, b) == -((-a) \div b)

\* Step 1: the raw step r = (hi - lo) / T.
RawStep(scale, T) == Frac(scale.hi - scale.lo, T)

\* k = floor(log10(r)) for r > 0
FloorLog10(r) ==
    CHOOSE k \in (-MaxExp)..MaxExp :
        FracLeq(PowFrac(k), r) /\ FracLt(r, PowFrac(k + 1))

\* A slip in step 2: the step is snapped up to a power of ten only.
NiceStepPowerOfTen(scale, T) ==
    LET r == RawStep(scale, T)
        k == FloorLog10(r)
    IN  IF FracEq(r, PowFrac(k)) THEN PowFrac(k) ELSE PowFrac(k + 1)

\* Step 2: r is snapped up to a step of the family {1, 2, 5} x 10^k.
NiceStep(scale, T) ==
    LET r == RawStep(scale, T)
        k == FloorLog10(r)
        m == FracDiv(r, PowFrac(k))
        nice == IF FracLeq(m, Frac(1, 1)) THEN 1
                ELSE IF FracLeq(m, Frac(2, 1)) THEN 2
                ELSE IF FracLeq(m, Frac(5, 1)) THEN 5
                ELSE 10
    IN  FracMul(Frac(nice, 1), PowFrac(k))

\* Step 3's loop: st holds the multiplier of the next tick and the ticks so
\* far; the loop ends at the first multiple of the step above hi.
RECURSIVE TickLoop(_, _, _)
TickLoop(scale, step, st) ==
    IF st.i * step.n > scale.hi * step.d
    THEN st.ticks
    ELSE TickLoop(scale, step,
             [i |-> st.i + 1,
              ticks |-> Append(st.ticks, [value |-> Frac(st.i * step.n, step.d)])])

\* Numeric::ticks: ticks at ceil(lo / step) * step, + step, ... up to hi.
ticks(scale, T) ==
    LET step == NiceStep(scale, T)
    IN  TickLoop(scale, step,
            [i |-> CeilDiv(scale.lo * step.d, step.n), ticks |-> <<>>])

(***************************************************************************)
(* axis.rs: the scale and the ticks the axis constructors compute          *)
(***************************************************************************)
\* A slip in Horizontal::new: the scale is built with the getter |pt| pt.y().
HorizontalTicksOfY(dom, T) ==
    IF dom.y_min < dom.y_max THEN ticks(from_data(dom, "y"), T) ELSE <<>>

\* Horizontal::new: x_scale.ticks()
HorizontalTicks(dom, T) == ticks(from_data(dom, "x"), T)

\* A slip in Vertical::new: the scale is built with the getter |pt| pt.x().
VerticalTicksOfX(dom, T) ==
    IF dom.x_min < dom.x_max THEN ticks(inverted(from_data(dom, "x")), T) ELSE <<>>

\* Vertical::new: y_scale.inverted().ticks()
VerticalTicks(dom, T) == ticks(inverted(from_data(dom, "y")), T)

(***************************************************************************)
(* Specification SpecScale: a scale is built from a domain (x_norm, y_norm)*)
(* or an axis constructor builds its scale and stores the ticks.           *)
(***************************************************************************)
\* f32::INFINITY, a coordinate above every finite one of the model
Infinity == I32Max

Finite(dom) ==
    \A v \in {dom.x_min, dom.x_max, dom.y_min, dom.y_max} : -Infinity < v /\ v < Infinity

\* The specification's scenario: the domain [0, 100].
TickScenarioDomain == BBoxNew(<<0, 0>>, <<100, 100>>)

\* The domain of the crate's line example: both series together.
LineDomain == BBoxNew(<<13, 37>>, <<210, 74>>)

NonFiniteDomains ==
    {BBoxNew(<<0, 0>>, <<Infinity, 1>>), BBoxNew(<<0, -Infinity>>, <<1, 1>>)}

ScaleVals == (-(MaxScale \div 4))..MaxScale

ScaleSmallVals == (-1)..(MaxScale \div 4)

ScaleDomains ==
    {BBoxNew(<<a, b>>, <<c, d>>) :
        a \in ScaleVals, c \in ScaleVals, b \in ScaleSmallVals, d \in ScaleSmallVals}
    \cup {TickScenarioDomain, LineDomain}
    \cup NonFiniteDomains

InitScale ==
    /\ SplitIdle
    /\ ChartIdle
    /\ MapIdle
    /\ DomainIdle
    /\ AxisIdle
    /\ OrderIdle
    /\ PlotsIdle
    /\ scaleDomain \in ScaleDomains
    /\ target \in 1..MaxTarget
    /\ numeric = None
    /\ tickVals = None

\* `Numeric::from_data(domain, |pt| pt.x())` as x_norm and y_norm call it: the
\* result is used as a scale directly (from_data returns Self).
NumericFromData(dim) ==
    /\ numeric = None
    /\ numeric' = from_data(scaleDomain, dim)
    /\ UNCHANGED <<scaleDomain, target, tickVals>>
    /\ UNCHANGED <<splitVars, chartVars, mapVars, domainVars, axisVars, pair>>
    /\ UNCHANGED plotVars

\* Horizontal::new.  The specification defines the ticks of a finite domain
\* with lo < hi only.
HorizontalNewTicks ==
    /\ numeric = None
    /\ Finite(scaleDomain)
    /\ scaleDomain.x_min < scaleDomain.x_max
    /\ numeric' = from_data(scaleDomain, "x")
    /\ tickVals' = [kind |-> "Horizontal", ticks |-> HorizontalTicks(scaleDomain, target)]
    /\ UNCHANGED <<scaleDomain, target>>
    /\ UNCHANGED <<splitVars, chartVars, mapVars, domainVars, axisVars, pair>>
    /\ UNCHANGED plotVars

\* Vertical::new
VerticalNewTicks ==
    /\ numeric = None
    /\ Finite(scaleDomain)
    /\ scaleDomain.y_min < scaleDomain.y_max
    /\ numeric' = inverted(from_data(scaleDomain, "y"))
    /\ tickVals' = [kind |-> "Vertical", ticks |-> VerticalTicks(scaleDomain, target)]
    /\ UNCHANGED <<scaleDomain, target>>
    /\ UNCHANGED <<splitVars, chartVars, mapVars, domainVars, axisVars, pair>>
    /\ UNCHANGED plotVars

NextScale ==
    \/ \E dim \in {"x", "y"} : NumericFromData(dim)
    \/ HorizontalNewTicks
    \/ VerticalNewTicks

SpecScale == InitScale /\ [][NextScale]_vars

HorizontalBuilt == tickVals # None /\ tickVals.kind = "Horizontal"

VerticalBuilt == tickVals # None /\ tickVals.kind = "Vertical"

TicksBuilt == tickVals # None

\* The range of the dimension the built axis reads.
BuiltLo == IF VerticalBuilt THEN scaleDomain.y_min ELSE scaleDomain.x_min

BuiltHi == IF VerticalBuilt THEN scaleDomain.y_max ELSE scaleDomain.x_max

BuiltTicks == tickVals.ticks

\* The steps {1, 2, 5} x 10^k
Family ==
    {FracMul(Frac(m, 1), PowFrac(k)) : m \in {1, 2, 5}, k \in (-MaxExp - 1)..(MaxExp + 1)}

\* C13: for a domain [lo, hi] with lo < hi and a target tick count T >= 1 the
\* tick step is the smallest member of the family {1, 2, 5} x 10^k that is
\* >= the raw step (hi - lo) / T, and the stored ticks are spaced by it; the
\* domain [0, 100] with T = 5 gives the step 20.
C13_NiceStep ==
    TicksBuilt =>
        LET r == Frac(BuiltHi - BuiltLo, target)
            s == NiceStep(numeric, target)
        IN  /\ \E f \in Family : FracEq(s, f)
            /\ FracLeq(r, s)
            /\ \A f \in Family : FracLeq(r, f) => FracLeq(s, f)
            /\ \A i \in 1..(Len(BuiltTicks) - 1) :
                FracEq(FracSub(BuiltTicks[i + 1].value, BuiltTicks[i].value), s)
            /\ ((BuiltLo = 0 /\ BuiltHi = 100 /\ target = 5) => FracEq(s, Frac(20, 1)))

C13_Witness ==
    /\ HorizontalBuilt
    /\ scaleDomain = TickScenarioDomain
    /\ target = 5
    /\ Len(BuiltTicks) = 6
    /\ FracEq(FracSub(BuiltTicks[2].value, BuiltTicks[1].value), Frac(20, 1))

\* The multipliers i whose multiple i * s could lie in [lo, hi].
Multipliers(lo, hi, s) ==
    LET K == ((Abs(lo) + Abs(hi)) * s.d) \div s.n + 1
    IN  (-K)..K

Multiple(i, s) == Frac(i * s.n, s.d)

InRange(f, lo, hi) == FracLeq(Frac(lo, 1), f) /\ FracLeq(f, Frac(hi, 1))

\* C14: the ticks generated for a domain [lo, hi] with step s are exactly the
\* integer multiples of s that lie in [lo, hi], a multiple equal to lo or to
\* hi included, in strictly increasing order, the first being
\* ceil(lo / s) * s; the domain [0, 100] with step 20 gives
\* 0, 20, 40, 60, 80, 100.
C14_TicksAreMultiples ==
    TicksBuilt =>
        LET s == NiceStep(numeric, target)
            lo == BuiltLo
            hi == BuiltHi
            vals == BuiltTicks
            mults == Multipliers(lo, hi, s)
        IN  /\ \A j \in 1..Len(vals) :
                /\ InRange(vals[j].value, lo, hi)
                /\ \E i \in mults : FracEq(vals[j].value, Multiple(i, s))
            /\ \A i \in mults :
                InRange(Multiple(i, s), lo, hi) =>
                    \E j \in 1..Len(vals) : FracEq(vals[j].value, Multiple(i, s))
            /\ \A j \in 1..(Len(vals) - 1) : FracLt(vals[j].value, vals[j + 1].value)
            /\ (Len(vals) > 0 =>
                    FracLt(FracSub(vals[1].value, s), Frac(lo, 1)))
            /\ ((lo = 0 /\ hi = 100 /\ target = 5) =>
                    /\ Len(vals) = 6
                    /\ \A j \in 1..6 : FracEq(vals[j].value, Frac(20 * (j - 1), 1)))

C14_Witness ==
    /\ HorizontalBuilt
    /\ scaleDomain.x_min = -3
    /\ scaleDomain.x_max = 10
    /\ target = 5
    /\ Len(BuiltTicks) = 3
    /\ FracEq(BuiltTicks[1].value, Frac(0, 1))
    /\ FracEq(BuiltTicks[3].value, Frac(10, 1))

\* C15 as stated: for every domain with lo < hi and every target tick count T
\* the number of ticks generated is within 2 of T.
C15_TickCountWithinTwo ==
    TicksBuilt => Abs(Len(BuiltTicks) - target) <= 2

\* C15, amended: the number of ticks is at most T + 1 and more than
\* T / 2.5 - 1 (the nice step is at least the raw step and less than 2.5
\* times it).
C15_TickCountBounds ==
    TicksBuilt =>
        /\ Len(BuiltTicks) <= target + 1
        /\ 5 * (Len(BuiltTicks) + 1) > 2 * target

C15_Witness ==
    /\ HorizontalBuilt
    /\ scaleDomain.x_min = 1
    /\ scaleDomain.x_max = 12
    /\ target = 5
    /\ Len(BuiltTicks) = 2

InvalidDomainError == [error |-> "InvalidDomain"]

ScaleBuilt == numeric # None

\* C16: building a scale from a domain with lo > hi or with non-finite bounds
\* fails with an InvalidDomain error; the bounds are never swapped or
\* otherwise repaired into a usable scale; and a scale that was constructed
\* is one on which no later operation fails (its bounds are finite, lo <= hi).
C16_InvalidDomainFails ==
    ScaleBuilt =>
        /\ (~Finite(scaleDomain) => numeric = InvalidDomainError)
        /\ (numeric # InvalidDomainError =>
                /\ numeric.lo <= numeric.hi
                /\ -Infinity < numeric.lo
                /\ numeric.hi < Infinity)

(***************************************************************************)
(* Specification SpecDomain: a domain is built from data points as in the  *)
(* crate's line example (BBox::new, then extend), one point at a time in   *)
(* any order.                                                              *)
(***************************************************************************)
MaxPoint == 2
MaxArrivals == 3

\* BBox::new on the first point of an iterator
BBoxFromPoint(p) == BBoxNew(p, p)

\* A bug extend could have: only the maximum corner grows.
BBoxExtendMaxOnly(b, p) ==
    [b EXCEPT !.x_max = Max(b.x_max, p[1]), !.y_max = Max(b.y_max, p[2])]

\* BBox::extend with one more point
BBoxExtend(b, p) ==
    [x_min |-> Min(b.x_min, p[1]), y_min |-> Min(b.y_min, p[2]),
     x_max |-> Max(b.x_max, p[1]), y_max |-> Max(b.y_max, p[2])]

\* Numeric::union: a scale over the combined extents of both.
union(a, b) ==
    [lo |-> Min(a.lo, b.lo), hi |-> Max(a.hi, b.hi), inverted |-> a.inverted]

GridPoints == (0..MaxPoint) \X (0..MaxPoint)

\* Points of the two series of the line example.
LinePoints == {<<13, 74>>, <<111, 37>>, <<190, 66>>, <<210, 43>>}

DomainPoints == GridPoints \cup LinePoints

InitDomain ==
    /\ SplitIdle
    /\ ChartIdle
    /\ MapIdle
    /\ ScaleIdle
    /\ AxisIdle
    /\ OrderIdle
    /\ PlotsIdle
    /\ seen = {}
    /\ extent = None

\* `BBox::new(data_a.iter().cloned())`: the first point
DomainNew(p) ==
    /\ extent = None
    /\ extent' = BBoxFromPoint(p)
    /\ seen' = {p}
    /\ UNCHANGED <<splitVars, chartVars, mapVars, scaleVars, axisVars, pair>>
    /\ UNCHANGED plotVars

\* `domain.extend(...)`: one more point
DomainExtend(p) ==
    /\ extent # None
    /\ Cardinality(seen \cup {p}) <= MaxArrivals
    /\ extent' = BBoxExtend(extent, p)
    /\ seen' = seen \cup {p}
    /\ UNCHANGED <<splitVars, chartVars, mapVars, scaleVars, axisVars, pair>>
    /\ UNCHANGED plotVars

NextDomain ==
    \/ \E p \in DomainPoints : DomainNew(p)
    \/ \E p \in DomainPoints : DomainExtend(p)

SpecDomain == InitDomain /\ [][NextDomain]_vars

GridBoxes == {BBoxNew(p, q) : p \in GridPoints, q \in GridPoints}

\* b is the bounding box of the points ps.
BoundsExactly(b, ps) ==
    /\ \A q \in ps :
        b.x_min <= q[1] /\ q[1] <= b.x_max /\ b.y_min <= q[2] /\ q[2] <= b.y_max
    /\ \E q \in ps : q[1] = b.x_min
    /\ \E q \in ps : q[1] = b.x_max
    /\ \E q \in ps : q[2] = b.y_min
    /\ \E q \in ps : q[2] = b.y_max

\* C17: extending never shrinks the domain and the result does not depend on
\* the order in which the points arrive (it is the bounding box of the set of
\* points); the union of two scales has the smaller minimum and the larger
\* maximum of the two, and union is commutative and associative.
C17_UnionOrderIndependent ==
    extent # None =>
        /\ BoundsExactly(extent, seen)
        /\ \A dim \in {"x", "y"} : \A B \in GridBoxes, q \in seen :
            LET a == from_data(extent, dim)
                b == from_data(B, dim)
                c == from_data(BBoxFromPoint(q), dim)
            IN  /\ union(a, b).lo = Min(a.lo, b.lo)
                /\ union(a, b).hi = Max(a.hi, b.hi)
                /\ union(a, b) = union(b, a)
                /\ union(union(a, b), c) = union(a, union(b, c))

C17_Witness ==
    /\ seen = {<<13, 74>>, <<210, 43>>, <<111, 37>>}
    /\ extent = LineDomain

(***************************************************************************)
(* text.rs: Tick; axis.rs: display_grid, display, display_tick_lines.      *)
(* A tick is [value |-> an exact fraction]; a position computed from it is *)
(* an exact fraction until `as i32` truncates it.                          *)
(***************************************************************************)
\* Tick::LEN
TickLen == 20

\* Tick::x
TickX(tick, edge, r, len) ==
    CASE edge = "Left" -> Frac(r.x_max - len, 1)
      [] edge = "Right" -> Frac(r.x_min + len, 1)
      [] OTHER -> Frac(tick.value.n * x_span(r) + r.x_min * tick.value.d, tick.value.d)

\* Tick::y
TickY(tick, edge, r, len) ==
    CASE edge = "Top" -> Frac(r.y_max - len, 1)
      [] edge = "Bottom" -> Frac(r.y_min + len, 1)
      [] OTHER -> Frac(tick.value.n * y_span(r) + r.y_min * tick.value.d, tick.value.d)

\* `as i32` on an f32: truncation toward zero, saturating
FracAsI32(f) == AsI32(Trunc(f))

intersect_horiz(this, rhs) ==
    BBoxNew(<<Max(this.x_min, rhs.x_min), this.y_min>>,
            <<Min(this.x_max, rhs.x_max), this.y_max>>)

intersect_vert(this, rhs) ==
    BBoxNew(<<this.x_min, Max(this.y_min, rhs.y_min)>>,
            <<this.x_max, Min(this.y_max, rhs.y_max)>>)

\* A slip in Horizontal::display_grid: the line is as long as the body is wide.
HorizontalDisplayGridWide(a, area) ==
    [j \in 1..Len(a.ticks) |->
        [x |-> TickX(a.ticks[j], a.edge, area, 0),
         y |-> Frac(area.y_min, 1),
         dx |-> 0,
         dy |-> x_span(area)]]

\* Horizontal::display_grid: "M{x} {area.y_min}v{area.y_span}" per tick
HorizontalDisplayGrid(a, area) ==
    [j \in 1..Len(a.ticks) |->
        [x |-> TickX(a.ticks[j], a.edge, area, 0),
         y |-> Frac(area.y_min, 1),
         dx |-> 0,
         dy |-> y_span(area)]]

\* Vertical::display_grid: "M{area.x_min} {y}h{area.x_span}" per tick
VerticalDisplayGrid(a, area) ==
    [j \in 1..Len(a.ticks) |->
        [x |-> Frac(area.x_min, 1),
         y |-> TickY(a.ticks[j], a.edge, area, 0),
         dx |-> x_span(area),
         dy |-> 0]]

AxisDisplayGrid(a, area) ==
    IF a.kind = "Horizontal"
    THEN HorizontalDisplayGrid(a, area)
    ELSE VerticalDisplayGrid(a, area)

\* Horizontal::display_tick_lines: "M{x} {y0}v{h}" per tick
HorizontalDisplayTickLines(a, r) ==
    LET height == IF a.edge = "Top" THEN TickLen ELSE -TickLen
    IN  [j \in 1..Len(a.ticks) |->
            LET x == FracAsI32(TickX(a.ticks[j], a.edge, r, TickLen))
                y == FracAsI32(TickY(a.ticks[j], a.edge, r, TickLen))
                y0 == Min(y, y + height)
                h == Max(y, y + height) - y0
            IN  [x |-> x, y |-> y0, dx |-> 0, dy |-> h]]

\* Vertical::display_tick_lines: " M{x0} {y}h{w}" per tick
VerticalDisplayTickLines(a, r) ==
    LET width == IF a.edge = "Left" THEN TickLen ELSE -TickLen
    IN  [j \in 1..Len(a.ticks) |->
            LET x == FracAsI32(TickX(a.ticks[j], a.edge, r, TickLen))
                y == FracAsI32(TickY(a.ticks[j], a.edge, r, TickLen))
                x0 == Min(x, x + width)
                w == Max(x, x + width) - x0
            IN  [x |-> x0, y |-> y, dx |-> w, dy |-> 0]]

\* Horizontal::display / Vertical::display: the rectangle is clipped to the
\* plot body, the name's half is split off, the tick lines are drawn in the
\* rest.
AxisDisplay(a, r, area) ==
    LET clipped == IF a.kind = "Horizontal"
                   THEN intersect_horiz(r, area)
                   ELSE intersect_vert(r, area)
        space == IF a.kind = "Horizontal" THEN HorizontalSpace(a) ELSE VerticalSpace(a)
        rest == IF a.name THEN Split(a.edge, clipped, space \div 2).rect ELSE clipped
    IN  IF a.kind = "Horizontal"
        THEN HorizontalDisplayTickLines(a, rest)
        ELSE VerticalDisplayTickLines(a, rest)

(***************************************************************************)
(* Specification SpecAxis: the axis part of Chart::body for one axis with  *)
(* ticks, alone or with a perpendicular axis split off before or after it: *)
(* the axes are split off, the grid is drawn, the axis is displayed.       *)
(***************************************************************************)
MaxDenom == 3
MaxTickCount == 2

\* Tick values: the fractions n / d of the span, in lowest terms.
TickPool ==
    {Frac(n, d) : n \in 0..MaxDenom, d \in 1..MaxDenom} \cap
    {f \in [n : 0..MaxDenom, d : 1..MaxDenom] :
        /\ f.n <= f.d
        /\ \A g \in 2..MaxDenom : ~(f.n % g = 0 /\ f.d % g = 0)}

TickSeqs ==
    {ts \in UNION {[1..n -> {[value |-> f] : f \in TickPool}] : n \in 0..MaxTickCount} :
        \A j \in 1..(Len(ts) - 1) : FracLt(ts[j].value, ts[j + 1].value)}

AxisRects ==
    {BBoxNew(<<a, a>>, <<a + 400 + w, a + 300 + w>>) : a \in 0..MaxOrigin, w \in 0..MaxSpan}

\* The axes the constructors and on_top / on_right can produce.
TickAxes ==
    {[kind |-> "Horizontal", edge |-> e, name |-> nm, ticks |-> ts] :
        e \in {"Bottom", "Top"}, nm \in BOOLEAN, ts \in TickSeqs}
    \cup
    {[kind |-> "Vertical", edge |-> e, name |-> nm, ticks |-> ts] :
        e \in {"Left", "Right"}, nm \in BOOLEAN, ts \in TickSeqs}

\* The chart's other axis, if any: perpendicular, without ticks or name.
OtherAxes(a) ==
    IF a.kind = "Horizontal"
    THEN {[kind |-> "Vertical", edge |-> e, name |-> FALSE, ticks |-> <<>>] :
            e \in {"Left", "Right"}}
    ELSE {[kind |-> "Horizontal", edge |-> e, name |-> FALSE, ticks |-> <<>>] :
            e \in {"Bottom", "Top"}}

InitAxis ==
    /\ SplitIdle
    /\ ChartIdle
    /\ MapIdle
    /\ ScaleIdle
    /\ DomainIdle
    /\ OrderIdle
    /\ PlotsIdle
    /\ gAxis \in TickAxes
    /\ gArea \in AxisRects
    /\ gRect = None
    /\ grid = None
    /\ marks = None

\* The axis loop of Chart::body with the axis alone, after, or before
\* another axis.
SplitAxes(when, other) ==
    /\ gRect = None
    /\ LET first == IF when = "after" THEN AxisSplit(other, gArea)
                    ELSE AxisSplit(gAxis, gArea)
           second == IF when = "after" THEN AxisSplit(gAxis, first.rect)
                     ELSE AxisSplit(other, first.rect)
       IN  /\ gRect' = IF when = "after" THEN second.carved ELSE first.carved
           /\ gArea' = IF when = "alone" THEN first.rect ELSE second.rect
    /\ UNCHANGED <<gAxis, grid, marks>>
    /\ UNCHANGED <<splitVars, chartVars, mapVars, scaleVars, domainVars, pair>>
    /\ UNCHANGED plotVars

\* `axis.display_grid(f, area)`
DisplayGrid ==
    /\ gRect # None
    /\ grid = None
    /\ grid' = [lines |-> AxisDisplayGrid(gAxis, gArea)]
    /\ UNCHANGED <<gAxis, gArea, gRect, marks>>
    /\ UNCHANGED <<splitVars, chartVars, mapVars, scaleVars, domainVars, pair>>
    /\ UNCHANGED plotVars

\* `axis.display(f, rect, area)`
DisplayAxis ==
    /\ grid # None
    /\ marks = None
    /\ marks' = [lines |-> AxisDisplay(gAxis, gRect, gArea)]
    /\ UNCHANGED <<gAxis, gArea, gRect, grid>>
    /\ UNCHANGED <<splitVars, chartVars, mapVars, scaleVars, domainVars, pair>>
    /\ UNCHANGED plotVars

NextAxis ==
    \/ \E when \in {"alone", "before", "after"}, other \in OtherAxes(gAxis) :
        SplitAxes(when, other)
    \/ DisplayGrid
    \/ DisplayAxis

SpecAxis == InitAxis /\ [][NextAxis]_vars

GridDrawn == grid # None

\* C18: display_grid emits exactly one grid line per tick, and each line spans
\* the whole plot body in the perpendicular dimension: for a Horizontal axis
\* a vertical line at x = tick.value * area.x_span + area.x_min from
\* area.y_min to area.y_max, for a Vertical axis a horizontal line at
\* y = tick.value * area.y_span + area.y_min from area.x_min to area.x_max.
C18_GridLinePerTick ==
    GridDrawn =>
        /\ Len(grid.lines) = Len(gAxis.ticks)
        /\ \A j \in 1..Len(gAxis.ticks) :
            LET v == gAxis.ticks[j].value
                l == grid.lines[j]
            IN  IF gAxis.kind = "Horizontal"
                THEN /\ FracEq(l.x, Frac(v.n * x_span(gArea) + gArea.x_min * v.d, v.d))
                     /\ FracEq(l.y, Frac(gArea.y_min, 1))
                     /\ l.dx = 0
                     /\ gArea.y_min + l.dy = gArea.y_max
                ELSE /\ FracEq(l.y, Frac(v.n * y_span(gArea) + gArea.y_min * v.d, v.d))
                     /\ FracEq(l.x, Frac(gArea.x_min, 1))
                     /\ l.dy = 0
                     /\ gArea.x_min + l.dx = gArea.x_max

C18_Witness ==
    /\ GridDrawn
    /\ gAxis.kind = "Horizontal"
    /\ Len(grid.lines) = 2
    /\ x_span(gArea) # y_span(gArea)
    /\ FracLt(Frac(gArea.x_min, 1), grid.lines[1].x)
    /\ FracLt(grid.lines[2].x, Frac(gArea.x_max, 1))

AxisDisplayed == marks # None

\* C20: tick marks line up with plotted data: for every plot body and every
\* normalised position p in [0, 1], the integer pixel at which the axis draws
\* the mark of a tick of value p equals the pixel x_map / y_map gives, in the
\* plot body, for a data value whose normalised position is p.
C20_TickMarksAlign ==
    AxisDisplayed =>
        \A j \in 1..Len(gAxis.ticks) : \A d \in 1..MaxDenom : \A v \in 0..d :
            LET dom == BBoxNew(<<0, 0>>, <<d, d>>)
                p == gAxis.ticks[j].value
            IN  IF gAxis.kind = "Horizontal"
                THEN FracEq(x_norm(dom, v), p) =>
                        marks.lines[j].x = x_map(dom, v, gArea)
                ELSE FracEq(y_norm(dom, v), p) =>
                        marks.lines[j].y = y_map(dom, v, gArea)

(***************************************************************************)
(* Specification SpecOrder: two splits are applied to a rectangle in       *)
(* either order (the order of the with_title / with_axis calls).           *)
(***************************************************************************)
\* Split a then split b of the same rectangle: what a and b received and
\* what is left.
SplitInOrder(r, a, b) ==
    LET s1 == Split(a.edge, r, a.value)
        s2 == Split(b.edge, s1.rect, b.value)
    IN  [a |-> s1.carved, b |-> s2.carved, rest |-> s2.rect]

\* The rectangles the two splits start from.
OrderRects ==
    {BBoxNew(<<o, o>>, <<o + w, o + h>>) :
        o \in 0..MaxOrigin, w \in 0..MaxSpan, h \in 0..MaxSpan}
    \cup {ScenarioRect}

OrderSplits == [edge : Edge, value : Thicknesses]

InitOrder ==
    /\ SplitIdle
    /\ ChartIdle
    /\ MapIdle
    /\ ScaleIdle
    /\ DomainIdle
    /\ AxisIdle
    /\ PlotsIdle
    /\ pair \in [rect : OrderRects, first : OrderSplits, second : OrderSplits,
                 ab : {None}, ba : {None}]

\* The two splits are applied to the rectangle in either order.
SplitBoth ==
    /\ pair.ab = None
    /\ LET ba == SplitInOrder(pair.rect, pair.second, pair.first)
       IN  pair' = [pair EXCEPT
                       !.ab = SplitInOrder(pair.rect, pair.first, pair.second),
                       !.ba = [a |-> ba.b, b |-> ba.a, rest |-> ba.rest]]
    /\ UNCHANGED <<splitVars, chartVars, mapVars, scaleVars, domainVars, axisVars>>
    /\ UNCHANGED plotVars

NextOrder == SplitBoth

SpecOrder == InitOrder /\ [][NextOrder]_vars

Perpendicular(e1, e2) == (e1 \in {"Top", "Bottom"}) # (e2 \in {"Top", "Bottom"})

\* Both thicknesses fit within the span available when they are applied, in
\* either order.
BothFit ==
    IF Perpendicular(pair.first.edge, pair.second.edge)
    THEN /\ pair.first.value <= EdgeSpan(pair.first.edge, pair.rect)
         /\ pair.second.value <= EdgeSpan(pair.second.edge, pair.rect)
    ELSE pair.first.value + pair.second.value <= EdgeSpan(pair.first.edge, pair.rect)

\* The corner two perpendicular strips of the rectangle share.
Corner ==
    LET a == Strip(pair.first.edge, pair.rect, pair.first.value)
        b == Strip(pair.second.edge, pair.rect, pair.second.value)
    IN  [x_min |-> Max(a.x_min, b.x_min), y_min |-> Max(a.y_min, b.y_min),
         x_max |-> Min(a.x_max, b.x_max), y_max |-> Min(a.y_max, b.y_max)]

\* C19: the final remainder does not depend on the order of two splits whose
\* thicknesses fit within the available spans; only the carved rectangles
\* differ: for perpendicular edges the shared corner goes to the split that
\* is applied first.
C19_SplitOrderIndependent ==
    (pair.ab # None /\ BothFit) =>
        /\ pair.ab.rest = pair.ba.rest
        /\ ((/\ Perpendicular(pair.first.edge, pair.second.edge)
             /\ pair.first.value > 0
             /\ pair.second.value > 0) =>
                /\ Inside(Corner, pair.ab.a)
                /\ ~Overlap(Corner, pair.ab.b)
                /\ Inside(Corner, pair.ba.b)
                /\ ~Overlap(Corner, pair.ba.a)
                /\ pair.ab.a # pair.ba.a
                /\ pair.ab.b # pair.ba.b)
        /\ (~Perpendicular(pair.first.edge, pair.second.edge) =>
                RectArea(pair.ab.a) = RectArea(pair.ba.a)
                /\ RectArea(pair.ab.b) = RectArea(pair.ba.b))

C19_Witness ==
    /\ pair.ab # None
    /\ BothFit
    /\ pair.rect = ScenarioRect
    /\ pair.first = [edge |-> "Top", value |-> 100]
    /\ pair.second = [edge |-> "Left", value |-> 100]
    /\ pair.ab.rest = BBoxNew(<<100, 100>>, <<1000, 500>>)
    /\ pair.ab.a = BBoxNew(<<0, 0>>, <<1000, 100>>)
    /\ pair.ba.a = BBoxNew(<<100, 0>>, <<1000, 100>>)

\* ---------------------------------------------------------------------
\* Plot numbering: Chart::defs, Chart::body and Chart::legend
\* ---------------------------------------------------------------------

\* The most plots a chart is given.
MaxPlots == 11

\* The number of marker shapes in MARKERS.
MarkerCount == 8

\* The length of the range that Chart::body cycles through.
PlotClasses == 10

\* with_area_plot, with_line_plot and with_scatter_plot push onto plots.
PushPlot(kind) ==
    /\ plotOut = None
    /\ Len(plots) < MaxPlots
    /\ plots' = Append(plots, kind)
    /\ UNCHANGED plotOut

\* Chart::defs: one marker per plot, numbered by the plot's position i
\* (counted from 0), its shape taken from MARKERS in rotation.
ChartDefs(ps) ==
    [n \in 1..Len(ps) |->
        [id |-> n - 1, class |-> n - 1, shape |-> (n - 1) % MarkerCount]]

\* Chart::body: the plots are zipped with (0..10).cycle() and each is
\* displayed with the number it is paired with.
ChartBody(ps) ==
    [n \in 1..Len(ps) |-> [class |-> (n - 1) % PlotClasses, kind |-> ps[n]]]

\* Chart::legend: one entry per plot, numbered by the plot's position i.
ChartLegend(ps) ==
    [n \in 1..Len(ps) |-> [class |-> n - 1]]

InitPlots ==
    /\ SplitIdle
    /\ ChartIdle
    /\ MapIdle
    /\ ScaleIdle
    /\ DomainIdle
    /\ AxisIdle
    /\ OrderIdle
    /\ PlotsIdle

WithAreaPlot ==
    /\ PushPlot("Area")
    /\ UNCHANGED <<splitVars, chartVars, mapVars, scaleVars, domainVars,
                   axisVars, pair>>

WithLinePlot ==
    /\ PushPlot("Line")
    /\ UNCHANGED <<splitVars, chartVars, mapVars, scaleVars, domainVars,
                   axisVars, pair>>

WithScatterPlot ==
    /\ PushPlot("Scatter")
    /\ UNCHANGED <<splitVars, chartVars, mapVars, scaleVars, domainVars,
                   axisVars, pair>>

\* Chart::render writes the marker definitions, the body and the legend.
RenderPlots ==
    /\ plotOut = None
    /\ plotOut' = [defs |-> ChartDefs(plots),
                   body |-> ChartBody(plots),
                   legend |-> ChartLegend(plots)]
    /\ UNCHANGED <<plots, splitVars, chartVars, mapVars, scaleVars,
                   domainVars, axisVars, pair>>

NextPlots ==
    \/ WithAreaPlot
    \/ WithLinePlot
    \/ WithScatterPlot
    \/ RenderPlots

SpecPlots == InitPlots /\ [][NextPlots]_vars

\* C21: in a rendered chart with any number of plots, the plot-N number
\* with which Chart::body draws the i-th plot equals the number i that
\* Chart::defs gives that plot's marker and Chart::legend gives its entry.
C21_PlotIndexAgrees ==
    plotOut # None =>
        \A n \in 1..Len(plots) :
            /\ plotOut.body[n].class = n - 1
            /\ plotOut.body[n].class = plotOut.defs[n].class
            /\ plotOut.body[n].class = plotOut.legend[n].class

====
